---- MODULE Spec2Model ----
(***************************************************************************)
(* A model of the Products / Posts CRUD API: the URL routes, the generic   *)
(* class-based views with their permission classes and lookup fields, the  *)
(* model serializers, JWT authentication and the two tables.               *)
(*                                                                         *)
(* A request is handled in the order the framework's dispatch runs it:     *)
(* authentication, permission check, choice of the handler for the HTTP    *)
(* method, then the handler (lookup, validation, save).  Under Spec one    *)
(* request is handled at a time; under SpecConc an update may be           *)
(* interleaved with other requests between its fetch and its save.         *)
(***************************************************************************)
EXTENDS Integers, Sequences, FiniteSets, TLC

VARIABLES now, posts, products, seq, last, fetched, observed, destroyed

vars == <<now, posts, products, seq, last, fetched, observed, destroyed>>

(***************************************************************************)
(* Bounds of the model.                                                    *)
(***************************************************************************)
\* rows ever inserted (Posts and Products together)
MaxEntities == 2
\* the clock stops here (minutes)
MaxClock == 45

(***************************************************************************)
(* Program constants.                                                      *)
(***************************************************************************)
\* Post.name = CharField(max_length=100)
NameMaxLength == 100
\* SIMPLE_JWT['ACCESS_TOKEN_LIFETIME'] = timedelta(minutes=30)
ACCESS_TOKEN_LIFETIME == 30

(***************************************************************************)
(* Strings are sequences of characters.                                    *)
(***************************************************************************)
Whitespace == {" "}

Rep(c, n) == [i \in 1..n |-> c]

RECURSIVE LStrip(_)
LStrip(s) ==
    IF s = <<>> THEN s
    ELSE IF Head(s) \in Whitespace THEN LStrip(Tail(s)) ELSE s

RECURSIVE RStrip(_)
RStrip(s) ==
    IF s = <<>> THEN s
    ELSE IF s[Len(s)] \in Whitespace THEN RStrip(SubSeq(s, 1, Len(s) - 1)) ELSE s

\* str.strip(), applied by the serializer's character fields (trim_whitespace)
Strip(s) == RStrip(LStrip(s))

(***************************************************************************)
(* JSON values of a request body: a field is absent, or a string, or a     *)
(* number (kept as its literal's characters).                              *)
(***************************************************************************)
Absent == [t |-> "absent", v |-> <<>>]
Str(s) == [t |-> "str", v |-> s]
Num(s) == [t |-> "num", v |-> s]

(***************************************************************************)
(* Users and credentials.                                                  *)
(***************************************************************************)
Anonymous == "AnonymousUser"
Users == {"alice", "admin"}
is_staff(u) == u = "admin"
is_authenticated(u) == u \in Users

NoCredentials == [kind |-> "none", user |-> Anonymous, iat |-> 0]
Malformed == [kind |-> "malformed", user |-> Anonymous, iat |-> 0]
Token(u, t) == [kind |-> "token", user |-> u, iat |-> t]

\* the clock moves in steps of one and a half token lifetimes
ClockStep == (3 * ACCESS_TOKEN_LIFETIME) \div 2

\* how long ago a presented token was issued: just now, half a lifetime ago,
\* exactly a lifetime ago, longer ago
TokenAges == {0, ACCESS_TOKEN_LIFETIME \div 2, ACCESS_TOKEN_LIFETIME, ClockStep}

\* what a client can send at time t: nothing, a garbled Bearer token, or an
\* access token the token endpoint issued at some time from 0 up to t
Credentials(t) ==
    {NoCredentials, Malformed}
        \cup {Token(u, t - a) : u \in Users, a \in {x \in TokenAges : x <= t}}

\* an access token's exp claim
Expiry(cred) == cred.iat + ACCESS_TOKEN_LIFETIME

\* a slip: a token that does not validate is taken for no token at all
Authenticate_lenient(cred, t) ==
    IF cred.kind = "token" /\ Expiry(cred) > t
    THEN [ok |-> TRUE, user |-> cred.user]
    ELSE [ok |-> TRUE, user |-> Anonymous]

\* JWTAuthentication.authenticate: no header -> no user (anonymous); a token
\* that does not validate (garbled, or exp <= now) -> AuthenticationFailed
Authenticate(cred, t) ==
    CASE cred.kind = "none" -> [ok |-> TRUE, user |-> Anonymous]
      [] cred.kind = "malformed" -> [ok |-> FALSE, user |-> Anonymous]
      [] cred.kind = "token" ->
            IF Expiry(cred) <= t
            THEN [ok |-> FALSE, user |-> Anonymous]
            ELSE [ok |-> TRUE, user |-> cred.user]

(***************************************************************************)
(* Permission classes.                                                     *)
(***************************************************************************)
SAFE_METHODS == {"GET", "HEAD", "OPTIONS"}
Methods == {"GET", "HEAD", "OPTIONS", "POST", "PUT", "PATCH", "DELETE"}

has_permission(permission, method, user) ==
    CASE permission = "AllowAny" -> TRUE
      [] permission = "IsAdminUser" -> is_authenticated(user) /\ is_staff(user)
      [] permission = "IsAuthenticatedOrReadOnly" ->
            method \in SAFE_METHODS \/ is_authenticated(user)

(***************************************************************************)
(* The generic views: the handler each HTTP method is bound to.            *)
(***************************************************************************)
GenericHandlers(generic) ==
    CASE generic = "ListAPIView" -> [GET |-> "list"]
      [] generic = "CreateAPIView" -> [POST |-> "create"]
      [] generic = "RetrieveAPIView" -> [GET |-> "retrieve"]
      [] generic = "UpdateAPIView" -> [PUT |-> "update", PATCH |-> "partial_update"]
      [] generic = "DestroyAPIView" -> [DELETE |-> "destroy"]
      [] generic = "ListCreateAPIView" -> [GET |-> "list", POST |-> "create"]
      [] generic = "RetrieveUpdateDestroyAPIView" ->
            [GET |-> "retrieve", PUT |-> "update", PATCH |-> "partial_update",
             DELETE |-> "destroy"]

\* the handler dispatch picks: HEAD runs the get handler when there is one,
\* OPTIONS is answered by every view, anything unbound is method-not-allowed
Handler(generic, method) ==
    LET h == GenericHandlers(generic) IN
    IF method = "OPTIONS" THEN "options"
    ELSE IF method = "HEAD" THEN (IF "GET" \in DOMAIN h THEN h["GET"] ELSE "http_method_not_allowed")
    ELSE IF method \in DOMAIN h THEN h[method]
    ELSE "http_method_not_allowed"

\* a slip: the list route built on the list-and-create generic view
ListProductAPIView_ListCreate ==
    [resource |-> "product", generic |-> "ListCreateAPIView",
     lookup_field |-> "pk", permission |-> "AllowAny"]

\* products/views.py
ListProductAPIView ==
    [resource |-> "product", generic |-> "ListAPIView",
     lookup_field |-> "pk", permission |-> "AllowAny"]
RetrieveProductAPIView ==
    [resource |-> "product", generic |-> "RetrieveAPIView",
     lookup_field |-> "slug", permission |-> "AllowAny"]
\* a slip: the create view left open to everyone
CreateProductAPIView_AllowAny ==
    [resource |-> "product", generic |-> "CreateAPIView",
     lookup_field |-> "pk", permission |-> "AllowAny"]
CreateProductAPIView ==
    [resource |-> "product", generic |-> "CreateAPIView",
     lookup_field |-> "pk", permission |-> "IsAdminUser"]
UpdateProductAPIView ==
    [resource |-> "product", generic |-> "UpdateAPIView",
     lookup_field |-> "slug", permission |-> "IsAdminUser"]
DestroyProductAPIView ==
    [resource |-> "product", generic |-> "DestroyAPIView",
     lookup_field |-> "slug", permission |-> "IsAdminUser"]

\* posts/views.py
ListCreatePostAPIView ==
    [resource |-> "post", generic |-> "ListCreateAPIView",
     lookup_field |-> "pk", permission |-> "IsAuthenticatedOrReadOnly"]
\* a slip: the Post detail view given the Products' write permission
RetrieveUpdateDestroyPostAPIView_IsAdminUser ==
    [resource |-> "post", generic |-> "RetrieveUpdateDestroyAPIView",
     lookup_field |-> "pk", permission |-> "IsAdminUser"]
RetrieveUpdateDestroyPostAPIView ==
    [resource |-> "post", generic |-> "RetrieveUpdateDestroyAPIView",
     lookup_field |-> "pk", permission |-> "IsAuthenticatedOrReadOnly"]

(***************************************************************************)
(* Serializer fields.                                                      *)
(***************************************************************************)
\* a slip: a character field that keeps the surrounding whitespace
CharField_no_trim(value, partial) ==
    IF value.t = "absent"
    THEN [ok |-> partial, has |-> FALSE, v |-> <<>>]
    ELSE IF Strip(value.v) = <<>>
         THEN [ok |-> FALSE, has |-> FALSE, v |-> <<>>]
         ELSE [ok |-> TRUE, has |-> TRUE, v |-> value.v]

\* serializers.CharField.run_validation: a missing field is an error unless
\* the update is partial; the value is converted with str() and stripped;
\* a blank result is an error
CharField(value, partial) ==
    IF value.t = "absent"
    THEN [ok |-> partial, has |-> FALSE, v |-> <<>>]
    ELSE LET s == Strip(value.v) IN
         IF s = <<>>
         THEN [ok |-> FALSE, has |-> FALSE, v |-> <<>>]
         ELSE [ok |-> TRUE, has |-> TRUE, v |-> s]

\* MaxLengthValidator, run on the converted value
MaxLengthValidator(f, limit) ==
    IF f.has /\ Len(f.v) > limit THEN [f EXCEPT !.ok = FALSE] ELSE f

\* the unique validator of a unique model field: no other row holds the value
UniqueValidator(f, table, field, pk) ==
    IF f.has /\ \E i \in DOMAIN table : i # pk /\ table[i][field] = f.v
    THEN [f EXCEPT !.ok = FALSE]
    ELSE f

\* Post: name = CharField(max_length=100), message = TextField(),
\* created_at = DateTimeField(auto_now_add=True)
PostModelFields == {"id", "name", "message", "created_at"}

\* a slip: created_at declared editable, so the serializer accepts it
PostSerializer_read_only_id == {"id"}

\* fields = '__all__': the serializer's fields are the model's; the primary
\* key and the non-editable auto_now_add field come out read-only
PostSerializer_read_only == {"id", "created_at"}

\* PostSerializer's field validation of a body: name -> outcome
PostSerializer_fields(data, partial) ==
    [name |-> MaxLengthValidator(CharField(data.name, partial), NameMaxLength),
     message |-> CharField(data.message, partial)]

\* PostSerializer.is_valid / validated_data; a body's value for a read-only
\* field is dropped
PostSerializer(data, partial) ==
    LET f == PostSerializer_fields(data, partial)
        given == {k \in DOMAIN f : f[k].has}
        stamp == IF "created_at" \notin PostSerializer_read_only /\ data.created_at # {}
                 THEN {"created_at"} ELSE {}
    IN [ok |-> \A k \in DOMAIN f : f[k].ok,
        validated |-> [k \in given \cup stamp |->
                          IF k \in given THEN f[k].v
                          ELSE CHOOSE t \in data.created_at : TRUE]]

\* Product: a slug (unique, the lookup key), a name, a creation timestamp
ProductModelFields == {"id", "slug", "name", "created_at"}

ProductSerializer_fields(data, partial, pk) ==
    [slug |-> UniqueValidator(CharField(data.slug, partial), products, "slug", pk),
     name |-> CharField(data.name, partial)]

ProductSerializer(data, partial, pk) ==
    LET f == ProductSerializer_fields(data, partial, pk)
        given == {k \in DOMAIN f : f[k].has}
    IN [ok |-> \A k \in DOMAIN f : f[k].ok,
        validated |-> [k \in given |-> f[k].v]]

\* serializer.to_representation: the row's fields and its primary key
\* (created_at is rendered as ISO 8601 text of the instant; the instant
\* stands for that text)
to_representation(table, pk) ==
    [k \in DOMAIN table[pk] \cup {"id"} |-> IF k = "id" THEN pk ELSE table[pk][k]]

(***************************************************************************)
(* The tables and the ORM calls the generic views make.                    *)
(***************************************************************************)
Table(resource) == IF resource = "post" THEN posts ELSE products

\* no primary key / no row
NoPk == 0

\* queryset.get(**{lookup_field: key}) of get_object: the matching rows
Matching(table, lookup_field, key) ==
    {i \in DOMAIN table :
        IF lookup_field = "pk" THEN i = key ELSE table[i][lookup_field] = key}

\* a slip: the lookup ignores the URL's key and takes the first row
get_object_first(table, lookup_field, key) ==
    IF DOMAIN table = {} THEN NoPk
    ELSE CHOOSE i \in DOMAIN table : \A j \in DOMAIN table : i <= j

\* get_object_or_404: the row's primary key, or NoPk
get_object(table, lookup_field, key) ==
    LET m == Matching(table, lookup_field, key) IN
    IF m = {} THEN NoPk ELSE CHOOSE i \in m : TRUE

\* serializer.update: setattr of every validated field on the instance
SetAttrs(instance, validated) ==
    [k \in DOMAIN instance |-> IF k \in DOMAIN validated THEN validated[k] ELSE instance[k]]

\* the unique index on Product.slug
IntegrityError(resource, table, pk, row) ==
    /\ resource = "product"
    /\ \E i \in DOMAIN table : i # pk /\ table[i].slug = row.slug

\* Model.save() of a new instance: INSERT with the next AUTOINCREMENT key;
\* auto_now_add stamps created_at
Insert(table, pk, validated, t) ==
    (pk :> [k \in DOMAIN validated \cup {"created_at"} |->
                IF k = "created_at" THEN t ELSE validated[k]]) @@ table

\* Model.save() of a fetched instance: UPDATE the row with that key; when no
\* row was updated, INSERT the instance (auto_now_add stamps it again)
Save(table, pk, instance, t) ==
    IF pk \in DOMAIN table
    THEN [table EXCEPT ![pk] = instance]
    ELSE (pk :> [instance EXCEPT !.created_at = t]) @@ table

\* a slip: a destroy that answers without deleting
Delete_nothing(table, pk) == table

\* instance.delete()
Delete(table, pk) == [i \in DOMAIN table \ {pk} |-> table[i]]

(***************************************************************************)
(* The handlers of the generic views.  Each yields the response and the    *)
(* view's table after it.                                                  *)
(***************************************************************************)
Response(handler, status, table, pk, body, inserted) ==
    [handler |-> handler, status |-> status, table |-> table, pk |-> pk,
     body |-> body, inserted |-> inserted]

\* an error response: the table is left as it is
Error(view, handler, status) ==
    Response(handler, status, Table(view.resource), NoPk, {}, FALSE)

Serializer(view, data, partial, pk) ==
    IF view.resource = "post"
    THEN PostSerializer(data, partial)
    ELSE ProductSerializer(data, partial, pk)

\* ListModelMixin.list
list(view) ==
    LET table == Table(view.resource) IN
    Response("list", 200, table, NoPk,
             {to_representation(table, i) : i \in DOMAIN table}, FALSE)

\* CreateModelMixin.create
create(view, data) ==
    LET table == Table(view.resource)
        s == Serializer(view, data, FALSE, NoPk)
        pk == seq[view.resource] + 1
        after == Insert(table, pk, s.validated, now)
    IN IF ~s.ok THEN Error(view, "create", 400)
       ELSE Response("create", 201, after, pk, {to_representation(after, pk)}, TRUE)

\* RetrieveModelMixin.retrieve
retrieve(view, key) ==
    LET table == Table(view.resource)
        pk == get_object(table, view.lookup_field, key)
    IN IF pk = NoPk THEN Error(view, "retrieve", 404)
       ELSE Response("retrieve", 200, table, pk, {to_representation(table, pk)}, FALSE)

\* the first half of UpdateModelMixin.update: get_object, is_valid, and the
\* validated fields set on the fetched instance
Fetch(view, key, data, partial) ==
    LET table == Table(view.resource)
        pk == get_object(table, view.lookup_field, key)
        s == Serializer(view, data, partial, pk)
    IN IF pk = NoPk THEN [status |-> 404, pk |-> NoPk, instance |-> <<>>]
       ELSE IF ~s.ok THEN [status |-> 400, pk |-> pk, instance |-> <<>>]
       ELSE [status |-> 200, pk |-> pk, instance |-> SetAttrs(table[pk], s.validated)]

\* the second half: perform_update -> serializer.save() -> instance.save()
perform_update(view, handler, pk, instance) ==
    LET table == Table(view.resource)
        after == Save(table, pk, instance, now)
    IN IF IntegrityError(view.resource, table, pk, instance)
       THEN Error(view, handler, 500)
       ELSE Response(handler, 200, after, pk, {to_representation(after, pk)}, FALSE)

\* UpdateModelMixin.update / partial_update
update(view, key, data, partial) ==
    LET handler == IF partial THEN "partial_update" ELSE "update"
        f == Fetch(view, key, data, partial)
    IN IF f.status # 200 THEN Error(view, handler, f.status)
       ELSE perform_update(view, handler, f.pk, f.instance)

\* DestroyModelMixin.destroy
destroy(view, key) ==
    LET table == Table(view.resource)
        pk == get_object(table, view.lookup_field, key)
    IN IF pk = NoPk THEN Error(view, "destroy", 404)
       ELSE Response("destroy", 204, Delete(table, pk), pk, {}, FALSE)

\* APIView.options: the view's metadata
options(view) == Response("options", 200, Table(view.resource), NoPk, {}, FALSE)

Perform(handler, view, key, data) ==
    CASE handler = "list" -> list(view)
      [] handler = "create" -> create(view, data)
      [] handler = "retrieve" -> retrieve(view, key)
      [] handler = "update" -> update(view, key, data, FALSE)
      [] handler = "partial_update" -> update(view, key, data, TRUE)
      [] handler = "destroy" -> destroy(view, key)
      [] handler = "options" -> options(view)

\* APIView.initial: perform_authentication, then check_permissions.  The
\* status of the refusal, or 0 when the request may go on.
initial(view, method, cred) ==
    LET auth == Authenticate(cred, now) IN
    IF ~auth.ok THEN 401
    ELSE IF ~has_permission(view.permission, method, auth.user)
         THEN (IF is_authenticated(auth.user) THEN 403 ELSE 401)
         ELSE 0

\* a slip: destroy runs before the permission check's verdict is applied
Dispatch_destroy_first(view, method, key, cred, data) ==
    LET refused == initial(view, method, cred)
        handler == Handler(view.generic, method)
    IN IF handler = "destroy"
       THEN (IF refused # 0
             THEN [destroy(view, key) EXCEPT !.status = refused]
             ELSE destroy(view, key))
       ELSE IF refused # 0 THEN Error(view, "initial", refused)
       ELSE IF handler = "http_method_not_allowed"
            THEN Error(view, handler, 405)
            ELSE Perform(handler, view, key, data)

\* APIView.dispatch: initial(), then the handler bound to the method
Dispatch(view, method, key, cred, data) ==
    LET refused == initial(view, method, cred)
        handler == Handler(view.generic, method)
    IN IF refused # 0 THEN Error(view, "initial", refused)
       ELSE IF handler = "http_method_not_allowed"
            THEN Error(view, handler, 405)
            ELSE Perform(handler, view, key, data)

(***************************************************************************)
(* Requests.                                                               *)
(***************************************************************************)
Slugs == {<<"s">>, <<"t">>}

\* the URL's <slug:slug> or <int:pk>; the list and create routes have none
Keys(view) ==
    IF view.generic \in {"ListAPIView", "CreateAPIView", "ListCreateAPIView"}
    THEN {NoPk}
    ELSE IF view.lookup_field = "slug" THEN Slugs ELSE 1..MaxEntities

\* bodies a client sends for a Post: names that are blank, plain, padded, exactly
\* at the length limit once stripped, over the limit, or a JSON number
NameInputs ==
    {Absent, Str(<<" ">>), Str(<<"a">>), Str(<<" ", "a", " ">>),
     Str(Rep("a", NameMaxLength) \o <<" ">>), Str(Rep("a", NameMaxLength + 1)),
     Num(<<"7">>)}
MessageInputs == {Absent, Str(<<"m">>), Str(<<" ", "m">>)}
PostBodies == [name : NameInputs, message : MessageInputs, created_at : {{}, {7}}]

ProductBodies == [slug : {Absent} \cup {Str(k) : k \in Slugs}, name : {Absent, Str(<<"p">>)}]

\* no body was read
NoData == <<>>

\* request.data is parsed when a handler asks for it: create, and update
\* once it has its object
ReadsData(view, method, key, cred) ==
    /\ initial(view, method, cred) = 0
    /\ \/ Handler(view.generic, method) = "create"
       \/ /\ Handler(view.generic, method) \in {"update", "partial_update"}
          /\ get_object(Table(view.resource), view.lookup_field, key) # NoPk

Bodies(view, method, key, cred) ==
    IF ReadsData(view, method, key, cred)
    THEN (IF view.resource = "post" THEN PostBodies ELSE ProductBodies)
    ELSE {NoData}

(***************************************************************************)
(* State.                                                                  *)
(*   now        the clock, in minutes                                      *)
(*   posts      the Post table: primary key -> row                         *)
(*   products   the Product table: primary key -> row                      *)
(*   seq        the last AUTOINCREMENT key of each table                   *)
(*   last       the request just answered and its response, until the      *)
(*              client has taken it                                        *)
(*   fetched    an update between its fetch and its save (SpecConc)        *)
(*   observed   per resource, what the responses so far told the clients:  *)
(*              each created entity as its latest create/update response   *)
(*              showed it, less the ones a destroy response removed        *)
(*   destroyed  the <<resource, pk>> whose destroy was answered 204        *)
(***************************************************************************)
NoRequest == [route |-> "none"]
NoFetch == [route |-> "none"]

Init ==
    /\ now = 0
    /\ posts = <<>>
    /\ products = <<>>
    /\ seq = [post |-> 0, product |-> 0]
    /\ last = NoRequest
    /\ fetched = NoFetch
    /\ observed = [post |-> <<>>, product |-> <<>>]
    /\ destroyed = {}

\* the response leaves the server: tables, response record and the clients'
\* knowledge after it
Commit(route, view, method, key, cred, data, out) ==
    LET res == view.resource
        wrote == out.status \in {200, 201} /\ out.handler \in {"create", "update", "partial_update"}
        removed == out.status = 204
    IN /\ seq.post + seq.product + (IF out.inserted THEN 1 ELSE 0) <= MaxEntities
       /\ posts' = IF res = "post" THEN out.table ELSE posts
       /\ products' = IF res = "product" THEN out.table ELSE products
       /\ seq' = IF out.inserted THEN [seq EXCEPT ![res] = @ + 1] ELSE seq
       /\ last' = [route |-> route, method |-> method, key |-> key, cred |-> cred,
                   data |-> data, handler |-> out.handler, status |-> out.status,
                   pk |-> out.pk, body |-> out.body]
       /\ observed' =
            IF wrote
            THEN [observed EXCEPT ![res] = (out.pk :> to_representation(out.table, out.pk)) @@ @]
            ELSE IF removed
            THEN [observed EXCEPT ![res] = [i \in DOMAIN @ \ {out.pk} |-> @[i]]]
            ELSE observed
       /\ destroyed' = IF removed THEN destroyed \cup {<<res, out.pk>>} ELSE destroyed
       /\ UNCHANGED now

\* config/urls.py includes products/urls.py and posts/urls.py under api/
urlpatterns ==
    {[route |-> "products/", view |-> ListProductAPIView],
     [route |-> "products/create", view |-> CreateProductAPIView],
     [route |-> "products/retrieve/<slug>", view |-> RetrieveProductAPIView],
     [route |-> "products/update/<slug>", view |-> UpdateProductAPIView],
     [route |-> "products/destroy/<slug>", view |-> DestroyProductAPIView],
     [route |-> "posts/", view |-> ListCreatePostAPIView],
     [route |-> "posts/<pk>", view |-> RetrieveUpdateDestroyPostAPIView]}

\* the view a route resolves to
View(route) == (CHOOSE p \in urlpatterns : p.route = route).view

\* one request to a route by one of the clients, handled from dispatch to
\* response
Serve(route, creds) ==
    /\ last = NoRequest
    /\ \E method \in Methods, key \in Keys(View(route)), cred \in creds :
         \E data \in Bodies(View(route), method, key, cred) :
            Commit(route, View(route), method, key, cred, data,
                   Dispatch(View(route), method, key, cred, data))
    /\ UNCHANGED fetched

\* products/urls.py
product_list ==
    /\ Serve("products/", Credentials(now))
product_create ==
    /\ Serve("products/create", Credentials(now))
product_retrieve ==
    /\ Serve("products/retrieve/<slug>", Credentials(now))
product_update ==
    /\ Serve("products/update/<slug>", Credentials(now))
product_destroy ==
    /\ Serve("products/destroy/<slug>", Credentials(now))

\* posts/urls.py
post_list_create ==
    /\ Serve("posts/", Credentials(now))
post_retrieve_update_destroy ==
    /\ Serve("posts/<pk>", Credentials(now))

\* the client takes the response
Respond ==
    /\ last # NoRequest
    /\ last' = NoRequest
    /\ UNCHANGED <<now, posts, products, seq, fetched, observed, destroyed>>

\* time passes between requests
Tick ==
    /\ last = NoRequest
    /\ now + ClockStep <= MaxClock
    /\ now' = now + ClockStep
    /\ UNCHANGED <<posts, products, seq, last, fetched, observed, destroyed>>

Next ==
    \/ product_list
    \/ product_create
    \/ product_retrieve
    \/ product_update
    \/ product_destroy
    \/ post_list_create
    \/ post_retrieve_update_destroy
    \/ Respond
    \/ Tick

\* requests handled one at a time
Spec == Init /\ [][Next]_vars

(***************************************************************************)
(* Interleaved handling: an update's get_object and its save() are two     *)
(* steps (no transaction spans the request), and other requests may be     *)
(* handled between them.  The clients here are staff with a fresh token,   *)
(* and the clock stands still.                                             *)
(***************************************************************************)
Staff(t) == {Token(u, t) : u \in {v \in Users : is_staff(v)}}

\* any route, requested by staff
serve == \E p \in urlpatterns : Serve(p.route, Staff(now))

\* an update request passes dispatch, fetches its object and validates
update_begin ==
    /\ last = NoRequest
    /\ fetched = NoFetch
    /\ \E p \in urlpatterns, method \in Methods, cred \in Staff(now) :
         \E key \in Keys(p.view) :
            \E data \in Bodies(p.view, method, key, cred) :
               LET handler == Handler(p.view.generic, method)
                   f == Fetch(p.view, key, data, handler = "partial_update")
               IN /\ handler \in {"update", "partial_update"}
                  /\ f.status = 200
                  /\ fetched' = [route |-> p.route, method |-> method, key |-> key,
                                 cred |-> cred, handler |-> handler,
                                 pk |-> f.pk, instance |-> f.instance]
    /\ UNCHANGED <<now, posts, products, seq, last, observed, destroyed>>

\* the fetched instance is saved and the update answered (the body was read
\* at the fetch; this step reads none)
update_finish ==
    /\ last = NoRequest
    /\ fetched # NoFetch
    /\ Commit(fetched.route, View(fetched.route), fetched.method, fetched.key,
              fetched.cred, NoData,
              perform_update(View(fetched.route), fetched.handler, fetched.pk,
                             fetched.instance))
    /\ fetched' = NoFetch

NextConc ==
    \/ serve
    \/ update_begin
    \/ update_finish
    \/ Respond

SpecConc == Init /\ [][NextConc]_vars

(***************************************************************************)
(* Vocabulary of the properties.  The requester and the routes are read    *)
(* off the answered request itself, not off the model's dispatch.          *)
(***************************************************************************)
Answered == last.route # "none"

ProductRoutes ==
    {"products/", "products/create", "products/retrieve/<slug>",
     "products/update/<slug>", "products/destroy/<slug>"}
PostRoutes == {"posts/", "posts/<pk>"}

\* the request carried no credentials
IsAnonymous == last.cred.kind = "none"
\* the request carried an access token younger than its lifetime
HasValidToken == last.cred.kind = "token" /\ now - last.cred.iat < 30
\* the request carried a garbled token, or one older than its lifetime
HasBadToken ==
    \/ last.cred.kind = "malformed"
    \/ last.cred.kind = "token" /\ now - last.cred.iat > 30
IsStaffRequester == HasValidToken /\ last.cred.user = "admin"
IsNonStaffRequester == HasValidToken /\ last.cred.user = "alice"

Denied == last.status \in {401, 403}
ErrorStatus == {400, 401, 403, 404, 405}

\* C1: on the Product routes list and retrieve are never denied, whoever
\* asks; create, update and destroy are denied unless the requester is an
\* authenticated staff user
C1_ProductsAnonymousReadAdminWrite ==
    (Answered /\ last.route \in ProductRoutes /\ (IsAnonymous \/ HasValidToken)) =>
        IF last.route \in {"products/", "products/retrieve/<slug>"}
        THEN ~Denied
        ELSE (Denied <=> ~IsStaffRequester)

\* C1 witness: an authenticated non-staff user is refused a Product create
C1_Witness ==
    /\ Answered
    /\ last.route = "products/create"
    /\ last.method = "POST"
    /\ IsNonStaffRequester
    /\ last.status = 403

\* C2: on both Post routes a safe method is never denied, and a writing
\* method is denied exactly when the requester is not authenticated; staff
\* or not makes no difference
C2_PostsAuthenticatedOrReadOnly ==
    (Answered /\ last.route \in PostRoutes /\ (IsAnonymous \/ HasValidToken)) =>
        (Denied <=> (last.method \in {"POST", "PUT", "PATCH", "DELETE"} /\ IsAnonymous))

\* C2 witness: a non-staff user deletes a post
C2_Witness ==
    /\ Answered
    /\ last.route = "posts/<pk>"
    /\ last.method = "DELETE"
    /\ IsNonStaffRequester
    /\ last.status = 204

\* C3: a request answered with an error leaves both tables as they were
C3_ErrorsLeaveTablesUnchanged ==
    [][(last'.route # "none" /\ last'.status \in ErrorStatus)
            => (posts' = posts /\ products' = products)]_vars

\* C3 witness: an update of an existing post is refused because the name is
\* longer than 100 characters
C3_Witness ==
    /\ Answered
    /\ last.route = "posts/<pk>"
    /\ last.method = "PUT"
    /\ last.status = 400
    /\ last.key \in DOMAIN posts
    /\ last.data.name.t = "str"
    /\ Len(last.data.name.v) > 100

\* the handlers that look an object up by the URL's key
DetailHandlers == {"retrieve", "update", "partial_update", "destroy"}

C5_CreatedAtServerAssigned ==
    [][/\ (last'.route # "none" /\ last'.route \in PostRoutes
                /\ last'.handler = "create" /\ last'.status = 201)
            => posts'[last'.pk].created_at = now
       /\ \A i \in DOMAIN posts \cap DOMAIN posts' :
            posts'[i].created_at = posts[i].created_at]_vars

\* C5 witness: a post created earlier was updated with a body that carried a
\* created_at
C5_Witness ==
    /\ Answered
    /\ last.route = "posts/<pk>"
    /\ last.handler \in {"update", "partial_update"}
    /\ last.status = 200
    /\ last.data.created_at = {7}
    /\ posts[last.pk].created_at < now

\* what a retrieve of the post just written returns
RetrievedAfterWrite == CHOOSE r \in retrieve(RetrieveUpdateDestroyPostAPIView, last.pk).body : TRUE

PostWritten ==
    /\ Answered
    /\ last.route \in PostRoutes
    /\ last.handler \in {"create", "update"}
    /\ last.status \in {200, 201}

\* C6 as claimed: after a successful create or PUT of a post, a retrieve
\* returns exactly the model's fields, with name and message equal to the
\* submitted values
C6_RoundTripEqualsSubmitted ==
    PostWritten =>
        /\ DOMAIN RetrievedAfterWrite = {"id", "name", "message", "created_at"}
        /\ Str(RetrievedAfterWrite.name) = last.data.name
        /\ Str(RetrievedAfterWrite.message) = last.data.message

\* C6 amended: after a successful create or PUT of a post, a retrieve returns
\* exactly the model's fields, with name and message equal to the submitted
\* values converted to strings and stripped of surrounding whitespace
C6_RoundTripEqualsStripped ==
    PostWritten =>
        /\ DOMAIN RetrievedAfterWrite = {"id", "name", "message", "created_at"}
        /\ RetrievedAfterWrite.id = last.pk
        /\ RetrievedAfterWrite.name = Strip(last.data.name.v)
        /\ RetrievedAfterWrite.message = Strip(last.data.message.v)

\* C6 witness: a post was created from a name padded with whitespace
C6_Witness ==
    /\ PostWritten
    /\ last.handler = "create"
    /\ last.data.name = Str(<<" ", "a", " ">>)

\* C7: the list endpoints return exactly the entities the responses so far
\* announced (created, not destroyed, as last updated); a destroyed entity is
\* not found; a successful create adds exactly one entity
C7_ListIsCreatedMinusDestroyed ==
    /\ [](/\ list(ListCreatePostAPIView).body
                = {observed.post[i] : i \in DOMAIN observed.post}
          /\ list(ListProductAPIView).body
                = {observed.product[i] : i \in DOMAIN observed.product}
          /\ \A d \in destroyed :
                IF d[1] = "post"
                THEN retrieve(RetrieveUpdateDestroyPostAPIView, d[2]).status = 404
                ELSE d[2] \notin DOMAIN products)
    /\ [][(last'.route # "none" /\ last'.handler = "create" /\ last'.status = 201) =>
            IF last'.route \in PostRoutes
            THEN /\ DOMAIN posts' = DOMAIN posts \cup {last'.pk}
                 /\ last'.pk \notin DOMAIN posts
                 /\ \A i \in DOMAIN posts : posts'[i] = posts[i]
            ELSE /\ DOMAIN products' = DOMAIN products \cup {last'.pk}
                 /\ last'.pk \notin DOMAIN products
                 /\ \A i \in DOMAIN products : products'[i] = products[i]]_vars

\* C7 witness: one entity was destroyed and another, still listed, updated
C7_Witness ==
    /\ Answered
    /\ last.handler = "update"
    /\ last.status = 200
    /\ destroyed # {}

\* the methods of a route's own operations
OwnMethods(route) ==
    CASE route = "products/" -> {"GET"}
      [] route = "products/create" -> {"POST"}
      [] route = "products/retrieve/<slug>" -> {"GET"}
      [] route = "products/update/<slug>" -> {"PUT", "PATCH"}
      [] route = "products/destroy/<slug>" -> {"DELETE"}
      [] route = "posts/" -> {"GET", "POST"}
      [] route = "posts/<pk>" -> {"GET", "PUT", "PATCH", "DELETE"}

\* the operation a route performs for a method of its own
OwnOperation(route, method) ==
    CASE route \in {"products/", "posts/"} /\ method = "GET" -> "list"
      [] route \in {"products/create", "posts/"} /\ method = "POST" -> "create"
      [] method = "GET" -> "retrieve"
      [] method = "PUT" -> "update"
      [] method = "PATCH" -> "partial_update"
      [] method = "DELETE" -> "destroy"

\* C8 as claimed: a method that is not one of the route's own (HEAD counted
\* with GET) is answered method-not-allowed and changes nothing
C8_OtherMethodsNotAllowed ==
    [][(/\ last'.route # "none"
        /\ last'.method \notin OwnMethods(last'.route)
        /\ ~(last'.method = "HEAD" /\ "GET" \in OwnMethods(last'.route))) =>
            /\ last'.status = 405
            /\ posts' = posts
            /\ products' = products]_vars

\* C8 amended: a route performs only its own operations; a method that is
\* not one of the route's own never changes an entity, and is answered
\* method-not-allowed once the requester has passed authentication and the
\* permission check, except OPTIONS (answered 200 by every route) and HEAD on
\* a route that serves GET (answered as the GET); a requester who does not
\* pass is answered 401 or 403
C8_OnlyOwnOperations ==
    [][last'.route # "none" =>
        IF last'.method \in OwnMethods(last'.route)
        THEN /\ last'.status # 405
             /\ ~(last'.status \in {401, 403})
                    => last'.handler = OwnOperation(last'.route, last'.method)
        ELSE /\ posts' = posts
             /\ products' = products
             /\ IF last'.status \in {401, 403} THEN TRUE
                ELSE IF last'.method = "OPTIONS" THEN last'.status = 200
                ELSE IF last'.method = "HEAD" /\ "GET" \in OwnMethods(last'.route)
                     THEN last'.status \in {200, 404}
                     ELSE last'.status = 405]_vars

\* C8 witness: a staff user's DELETE to the update route is answered 405
C8_Witness ==
    /\ Answered
    /\ last.route = "products/update/<slug>"
    /\ last.method = "DELETE"
    /\ IsStaffRequester
    /\ last.status = 405

\* the permission predicate of each route, for a requester who passed
\* authentication
Permitted ==
    IF last.route \in {"products/", "products/retrieve/<slug>"} THEN TRUE
    ELSE IF last.route \in ProductRoutes THEN IsStaffRequester
    ELSE last.method \in {"GET", "HEAD", "OPTIONS"} \/ HasValidToken

\* C9: a request with a garbled or expired token is answered 401 on every
\* route and method; a request without credentials, or with a valid token,
\* goes on to the permission check, whose verdict depends only on the
\* requester's role, the method and the route
C9_AuthenticationBeforePermission ==
    Answered =>
        /\ HasBadToken => last.status = 401
        /\ (IsAnonymous \/ HasValidToken) =>
              /\ Denied <=> ~Permitted
              /\ last.status = 401 <=> (~Permitted /\ IsAnonymous)
              /\ last.status = 403 <=> (~Permitted /\ HasValidToken)

\* C9 witness: a read endpoint open to anonymous requesters refuses a token
\* issued more than 30 minutes ago
C9_Witness ==
    /\ Answered
    /\ last.route = "products/"
    /\ last.method = "GET"
    /\ last.cred.kind = "token"
    /\ now - last.cred.iat > 30
    /\ last.status = 401

\* C10: once an entity's destroy has been answered 204, the entity is not in
\* its table
C10_DestroyedStaysDestroyed ==
    \A d \in destroyed : d[2] \notin DOMAIN Table(d[1])

====
